---- MODULE Spec2Model ----
(***************************************************************************)
(* A model of package datapool (src/datapool.go): a pool of named buckets, *)
(* each holding one value and the timestamp of its last write.             *)
(*                                                                         *)
(* The pool's only field is the slice p.buckets.  A Go slice is a header   *)
(* (backing array, len, cap); the model keeps the header in `buckets`, the *)
(* backing arrays in `arrays` and the heap of *bucket cells in `cells`.    *)
(* DataPool has no lock of its own: Bucket reads and replaces p.buckets    *)
(* with plain loads and stores, get and put lock only the cell's RWMutex.  *)
(* Every load or store of shared memory is one step of the calling         *)
(* goroutine, so the model shows every interleaving of those accesses      *)
(* (a header load or store is taken as one access).                        *)
(***************************************************************************)
EXTENDS Integers, Sequences, FiniteSets, TLC

\* The goroutines that call into the pool.
Procs == {"g1", "g2"}

\* The bucket names the callers ask for.
Names == {"a", "b"}

\* nil, the zero value of `any`.
Nil == "nil"

\* The values callers store.
Values == {Nil, "x"}

\* The name field of a handle-less call (pool.get / pool.put by raw id).
NoName == "-"

\* No more than MaxCells cells are ever allocated.
MaxCells == 3

\* The clock readings are 1..MaxClock.
MaxClock == 2

\* No more than MaxCalls calls are started in one run.
MaxCalls == 4

VARIABLES
    buckets,   \* p.buckets: the slice header [arr, len, cap]
    arrays,    \* the backing arrays: arrays[a][i+1] is element i, 0 when unset
    cells,     \* the heap of *bucket: name, value, timestamp, guard
    clock,     \* the last reading of time.Now().UnixNano()
    pc,        \* the statement each goroutine executes next
    loc,       \* the arguments, locals and results of each goroutine's call
    handles,   \* every Bucket handle returned so far
    lastPut,   \* history: per name, the last put returned through its handles
    stamped,   \* history: the cells some put has stamped
    calls      \* the number of calls started

vars == <<buckets, arrays, cells, clock, pc, loc, handles, lastPut, stamped, calls>>

(***************************************************************************)
(* Data                                                                    *)
(***************************************************************************)

\* Mutant of NewCell: the new cell is born with a clock reading as timestamp.
NewCellStamped(name) ==
    [name |-> name, value |-> Nil, timestamp |-> 1, readers |-> 0, writer |-> FALSE]

\* &bucket{name: name, timestamp: 0}: no value, guard unlocked.
NewCell(name) ==
    [name |-> name, value |-> Nil, timestamp |-> 0, readers |-> 0, writer |-> FALSE]

\* make([]*bucket, 0): an empty slice over a zero-capacity array.
EmptySlice == [arr |-> 1, len |-> 0, cap |-> 0]

\* The capacity append gives a full slice of pointers: 1, then doubling.
GrowCap(cap) == IF cap = 0 THEN 1 ELSE 2 * cap

\* Mutant of LastId: the length is returned, not the last position.
LastIdOffByOne(hdr) == hdr.len

\* len(p.buckets) - 1
LastId(hdr) == hdr.len - 1

\* Mutant of NameMatches: the comparison never succeeds.
NameNeverMatches(cellName, name) == FALSE

\* b.name == name
NameMatches(cellName, name) == cellName = name

\* Mutant of IsFresh: an equal timestamp counts as fresh.
IsFreshOrEqual(cellTimestamp, timestamp) == cellTimestamp >= timestamp

\* p.buckets[id].timestamp > timestamp
IsFresh(cellTimestamp, timestamp) == cellTimestamp > timestamp

\* Mutant of OutOfRange: only a negative id is rejected.
OutOfRangeBelow(id, hdr) == id < 0

\* Mutant of OutOfRange: only an id at or past the length is rejected.
OutOfRangeAbove(id, hdr) == id >= hdr.len

\* id < 0 || id >= len(p.buckets)
OutOfRange(id, hdr) == id < 0 \/ id >= hdr.len

\* The cell p.buckets[id] evaluates to through header hdr; the index
\* expression has the runtime's own bounds check (0: index out of range).
ElemOf(hdr, id) == IF id \in 0..(hdr.len - 1) THEN arrays[hdr.arr][id + 1] ELSE 0

\* p.buckets[id] in the current state.
Resolve(id) == ElemOf(buckets, id)

\* The pool as its callers see it: the cells at positions 0..len-1.
Pool == [i \in 1..buckets.len |-> arrays[buckets.arr][i]]

\* The locals of a goroutine that is in no call.
Idle0 ==
    [op |-> "none", h |-> [name |-> NoName, id |-> -1], c |-> 0, val |-> Nil,
     snap |-> EmptySlice, i |-> 0, b |-> 0, hdr |-> EmptySlice,
     lk |-> 0, ul |-> 0, now |-> 0, rv |-> Nil, rts |-> 0, rfresh |-> FALSE,
     prev |-> 0]

NoPut == [v |-> Nil, t |-> 0, valid |-> FALSE]

\* The statements a goroutine can be at.
Statements ==
    {"idle", "returned", "panic",
     "b_iter", "b_write", "b_store", "b_len",
     "g_reject", "g_rlock", "g_defer", "g_value", "g_timestamp", "g_fresh", "g_runlock",
     "p_reject", "p_lock", "p_defer", "p_value", "p_now", "p_stamp", "p_return",
     "p_unlock"}

\* The shape of the state: DataPool{buckets}, bucket{name, value, timestamp,
\* guard} and Bucket{pool, id}.
TypeOK ==
    /\ buckets.arr \in 1..Len(arrays)
    /\ buckets.cap = Len(arrays[buckets.arr])
    /\ buckets.len \in 0..buckets.cap
    /\ \A a \in 1..Len(arrays) : \A i \in 1..Len(arrays[a]) :
         arrays[a][i] \in 0..Len(cells)
    /\ \A i \in 1..buckets.len : Pool[i] \in 1..Len(cells)
    /\ Len(cells) <= MaxCells
    /\ \A k \in 1..Len(cells) :
         /\ cells[k].name \in Names
         /\ cells[k].value \in Values
         /\ cells[k].timestamp \in 0..MaxClock
         /\ cells[k].readers \in 0..Cardinality(Procs)
         /\ cells[k].writer \in BOOLEAN
    /\ clock \in 1..MaxClock
    /\ pc \in [Procs -> Statements]
    /\ handles \subseteq [name : Names, id : -1..MaxCells]
    /\ stamped \subseteq 1..Len(cells)
    /\ calls \in 0..MaxCalls

Init ==
    /\ buckets = EmptySlice
    /\ arrays = << << >> >>
    /\ cells = << >>
    /\ clock = 1
    /\ pc = [p \in Procs |-> "idle"]
    /\ loc = [p \in Procs |-> Idle0]
    /\ handles = {}
    /\ lastPut = [n \in Names |-> NoPut]
    /\ stamped = {}
    /\ calls = 0

\* A panic or fatal error in one goroutine ends the whole program.
Running == \A p \in Procs : pc[p] # "panic"

\* The program runs and goroutine p is about to execute statement `at`.
At(p, at) == Running /\ pc[p] = at

(***************************************************************************)
(* DataPool.Bucket                                                         *)
(***************************************************************************)

\* The goroutines inside Bucket that have not allocated their cell yet.
Scanning == {q \in Procs : pc[q] = "b_iter"}

\* `for i, b := range p.buckets`: the range expression is evaluated once,
\* the loop runs over that copy of the header.
BucketRange(p, name) ==
    /\ At(p, "idle")
    /\ Len(cells) + Cardinality(Scanning) < MaxCells
    /\ loc' = [loc EXCEPT ![p] =
                 [Idle0 EXCEPT !.op = "Bucket", !.h = [name |-> name, id |-> -1],
                               !.snap = buckets]]
    /\ pc' = [pc EXCEPT ![p] = "b_iter"]
    /\ UNCHANGED <<buckets, arrays, cells, clock, handles, lastPut, stamped>>
    /\ calls < MaxCalls
    /\ calls' = calls + 1

\* One iteration: `if b.name == name { return Bucket{pool: p, id: i} }`.
BucketIter(p) ==
    /\ At(p, "b_iter")
    /\ loc[p].i < loc[p].snap.len
    /\ LET i == loc[p].i
           b == arrays[loc[p].snap.arr][i + 1]
           h == [name |-> loc[p].h.name, id |-> i]
       IN IF NameMatches(cells[b].name, loc[p].h.name)
          THEN /\ handles' = handles \cup {h}
               /\ loc' = [loc EXCEPT ![p] = [Idle0 EXCEPT !.op = "Bucket", !.h = h]]
               /\ pc' = [pc EXCEPT ![p] = "returned"]
          ELSE /\ loc' = [loc EXCEPT ![p].i = i + 1]
               /\ UNCHANGED <<handles, pc>>
    /\ UNCHANGED <<buckets, arrays, cells, clock, lastPut, stamped, calls>>

\* The loop found nothing: `b := &bucket{...}`, then append loads p.buckets.
BucketAppendLoad(p) ==
    /\ At(p, "b_iter")
    /\ loc[p].i = loc[p].snap.len
    /\ cells' = Append(cells, NewCell(loc[p].h.name))
    /\ loc' = [loc EXCEPT ![p].b = Len(cells) + 1, ![p].hdr = buckets]
    /\ pc' = [pc EXCEPT ![p] = "b_write"]
    /\ UNCHANGED <<buckets, arrays, clock, handles, lastPut, stamped, calls>>

\* append stores b behind the loaded slice: in place when the capacity
\* allows, else in a new array that starts as a copy of the old elements.
BucketAppendWrite(p) ==
    /\ At(p, "b_write")
    /\ LET h == loc[p].hdr
           newcap == GrowCap(h.cap)
           grown == [i \in 1..newcap |->
                       IF i <= h.len THEN arrays[h.arr][i]
                       ELSE IF i = h.len + 1 THEN loc[p].b ELSE 0]
       IN IF h.len < h.cap
          THEN /\ arrays' = [arrays EXCEPT ![h.arr][h.len + 1] = loc[p].b]
               /\ loc' = [loc EXCEPT ![p].hdr = [h EXCEPT !.len = h.len + 1]]
          ELSE /\ arrays' = Append(arrays, grown)
               /\ loc' = [loc EXCEPT ![p].hdr =
                            [arr |-> Len(arrays) + 1, len |-> h.len + 1, cap |-> newcap]]
    /\ pc' = [pc EXCEPT ![p] = "b_store"]
    /\ UNCHANGED <<buckets, cells, clock, handles, lastPut, stamped, calls>>

\* `p.buckets = append(p.buckets, b)`: the store of the new header.
BucketStore(p) ==
    /\ At(p, "b_store")
    /\ buckets' = loc[p].hdr
    /\ pc' = [pc EXCEPT ![p] = "b_len"]
    /\ UNCHANGED <<arrays, cells, clock, loc, handles, lastPut, stamped, calls>>

\* `return Bucket{pool: p, id: len(p.buckets) - 1}`: p.buckets is loaded again.
BucketLen(p) ==
    /\ At(p, "b_len")
    /\ LET h == [name |-> loc[p].h.name, id |-> LastId(buckets)]
       IN /\ handles' = handles \cup {h}
          /\ loc' = [loc EXCEPT ![p] =
                       [Idle0 EXCEPT !.op = "Bucket", !.h = h, !.b = loc[p].b]]
    /\ pc' = [pc EXCEPT ![p] = "returned"]
    /\ UNCHANGED <<buckets, arrays, cells, clock, lastPut, stamped, calls>>

(***************************************************************************)
(* DataPool.get and DataPool.put, reached through Bucket.Get / Bucket.Put  *)
(* with the handle's id, or directly with any id.                          *)
(***************************************************************************)

\* The ids a caller passes without a handle: below and above every position.
RawHandles == {[name |-> NoName, id |-> i] : i \in {-1, MaxCells}}

\* The compare timestamps a caller passes to get.
Cmp == -1..(MaxClock + 1)

\* A goroutine whose index expression or unlock failed: the program has crashed.
Crash(p) == pc' = [pc EXCEPT ![p] = "panic"]

\* `if id < 0 || id >= len(p.buckets) { return nil, timestamp, false }`
GetCheck(p, h, c) ==
    /\ At(p, "idle")
    /\ loc' = [loc EXCEPT ![p] = [Idle0 EXCEPT !.op = "get", !.h = h, !.c = c]]
    /\ pc' = [pc EXCEPT ![p] = IF OutOfRange(h.id, buckets) THEN "g_reject" ELSE "g_rlock"]
    /\ UNCHANGED <<buckets, arrays, cells, clock, handles, lastPut, stamped>>
    /\ calls < MaxCalls
    /\ calls' = calls + 1

\* `return nil, timestamp, false`
GetReject(p) ==
    /\ At(p, "g_reject")
    /\ loc' = [loc EXCEPT ![p].rv = Nil, ![p].rts = loc[p].c, ![p].rfresh = FALSE]
    /\ pc' = [pc EXCEPT ![p] = "returned"]
    /\ UNCHANGED <<buckets, arrays, cells, clock, handles, lastPut, stamped, calls>>

\* guard.RLock() goes ahead when no writer holds the guard.  (sync.RWMutex
\* also holds new readers back while a writer waits; the model lets them in,
\* which only adds behaviours.)
CanRLock(cell) == ~cell.writer

\* `p.buckets[id].guard.RLock()`: waits while a writer holds the guard.
GetRLock(p) ==
    /\ At(p, "g_rlock")
    /\ LET k == Resolve(loc[p].h.id)
       IN /\ k # 0 => CanRLock(cells[k])
          /\ IF k = 0
             THEN Crash(p) /\ UNCHANGED <<cells, loc>>
             ELSE /\ cells' = [cells EXCEPT ![k].readers = @ + 1]
                  /\ loc' = [loc EXCEPT ![p].lk = k]
                  /\ pc' = [pc EXCEPT ![p] = "g_defer"]
    /\ UNCHANGED <<buckets, arrays, clock, handles, lastPut, stamped, calls>>

\* `defer p.buckets[id].guard.RUnlock()`: the receiver is evaluated now.
GetDefer(p) ==
    /\ At(p, "g_defer")
    /\ LET k == Resolve(loc[p].h.id)
       IN IF k = 0
          THEN Crash(p) /\ UNCHANGED loc
          ELSE /\ loc' = [loc EXCEPT ![p].ul = k]
               /\ pc' = [pc EXCEPT ![p] = "g_value"]
    /\ UNCHANGED <<buckets, arrays, cells, clock, handles, lastPut, stamped, calls>>

\* The first result, `p.buckets[id].value`.
GetValue(p) ==
    /\ At(p, "g_value")
    /\ LET k == Resolve(loc[p].h.id)
       IN IF k = 0
          THEN Crash(p) /\ UNCHANGED loc
          ELSE /\ loc' = [loc EXCEPT ![p].rv = cells[k].value]
               /\ pc' = [pc EXCEPT ![p] = "g_timestamp"]
    /\ UNCHANGED <<buckets, arrays, cells, clock, handles, lastPut, stamped, calls>>

\* The second result, `p.buckets[id].timestamp`.
GetTimestamp(p) ==
    /\ At(p, "g_timestamp")
    /\ LET k == Resolve(loc[p].h.id)
       IN IF k = 0
          THEN Crash(p) /\ UNCHANGED loc
          ELSE /\ loc' = [loc EXCEPT ![p].rts = cells[k].timestamp]
               /\ pc' = [pc EXCEPT ![p] = "g_fresh"]
    /\ UNCHANGED <<buckets, arrays, cells, clock, handles, lastPut, stamped, calls>>

\* The third result, `p.buckets[id].timestamp > timestamp`.
GetFresh(p) ==
    /\ At(p, "g_fresh")
    /\ LET k == Resolve(loc[p].h.id)
       IN IF k = 0
          THEN Crash(p) /\ UNCHANGED loc
          ELSE /\ loc' = [loc EXCEPT ![p].rfresh = IsFresh(cells[k].timestamp, loc[p].c)]
               /\ pc' = [pc EXCEPT ![p] = "g_runlock"]
    /\ UNCHANGED <<buckets, arrays, cells, clock, handles, lastPut, stamped, calls>>

\* The deferred RUnlock runs and get returns; RUnlock of a guard that has no
\* reader is a fatal error.
GetRUnlock(p) ==
    /\ At(p, "g_runlock")
    /\ LET k == loc[p].ul
       IN IF cells[k].readers = 0
          THEN Crash(p) /\ UNCHANGED <<cells, loc>>
          ELSE /\ cells' = [cells EXCEPT ![k].readers = @ - 1]
               /\ pc' = [pc EXCEPT ![p] = "returned"]
               /\ UNCHANGED loc
    /\ UNCHANGED <<buckets, arrays, clock, handles, lastPut, stamped, calls>>

\* History: the timestamp the last put through a handle of this name returned
\* before this call started (0: there was none).
PrevOf(h) == IF h.name \in Names THEN lastPut[h.name].t ELSE 0

\* `if id < 0 || id >= len(p.buckets) { return 0 }`
PutCheck(p, h, v) ==
    /\ At(p, "idle")
    /\ loc' = [loc EXCEPT ![p] = [Idle0 EXCEPT !.op = "put", !.h = h, !.val = v,
                                         !.prev = PrevOf(h)]]
    /\ pc' = [pc EXCEPT ![p] = IF OutOfRange(h.id, buckets) THEN "p_reject" ELSE "p_lock"]
    /\ UNCHANGED <<buckets, arrays, cells, clock, handles, lastPut, stamped>>
    /\ calls < MaxCalls
    /\ calls' = calls + 1

\* `return 0`
PutReject(p) ==
    /\ At(p, "p_reject")
    /\ loc' = [loc EXCEPT ![p].rts = 0]
    /\ pc' = [pc EXCEPT ![p] = "returned"]
    /\ UNCHANGED <<buckets, arrays, cells, clock, handles, lastPut, stamped, calls>>

\* guard.Lock() goes ahead when the guard has no writer and no reader.
CanLock(cell) == ~cell.writer /\ cell.readers = 0

\* `p.buckets[id].guard.Lock()`: waits while the guard has a reader or a writer.
PutLock(p) ==
    /\ At(p, "p_lock")
    /\ LET k == Resolve(loc[p].h.id)
       IN /\ k # 0 => CanLock(cells[k])
          /\ IF k = 0
             THEN Crash(p) /\ UNCHANGED <<cells, loc>>
             ELSE /\ cells' = [cells EXCEPT ![k].writer = TRUE]
                  /\ loc' = [loc EXCEPT ![p].lk = k]
                  /\ pc' = [pc EXCEPT ![p] = "p_defer"]
    /\ UNCHANGED <<buckets, arrays, clock, handles, lastPut, stamped, calls>>

\* `defer p.buckets[id].guard.Unlock()`: the receiver is evaluated now.
PutDefer(p) ==
    /\ At(p, "p_defer")
    /\ LET k == Resolve(loc[p].h.id)
       IN IF k = 0
          THEN Crash(p) /\ UNCHANGED loc
          ELSE /\ loc' = [loc EXCEPT ![p].ul = k]
               /\ pc' = [pc EXCEPT ![p] = "p_value"]
    /\ UNCHANGED <<buckets, arrays, cells, clock, handles, lastPut, stamped, calls>>

\* A write to cell k through handle h ends what lastPut says of both names.
Overwritten(k, h) ==
    [n \in Names |->
        IF n = cells[k].name \/ n = h.name
        THEN [lastPut[n] EXCEPT !.v = Nil, !.valid = FALSE]
        ELSE lastPut[n]]

\* Mutant of WithValue: a nil value is not stored.
WithValueUnlessNil(cell, value) ==
    IF value = Nil THEN cell ELSE [cell EXCEPT !.value = value]

\* The cell after `p.buckets[id].value = value`.
WithValue(cell, value) == [cell EXCEPT !.value = value]

\* `p.buckets[id].value = value`
PutValue(p) ==
    /\ At(p, "p_value")
    /\ LET k == Resolve(loc[p].h.id)
       IN IF k = 0
          THEN Crash(p) /\ UNCHANGED <<cells, lastPut>>
          ELSE /\ cells' = [cells EXCEPT ![k] = WithValue(@, loc[p].val)]
               /\ lastPut' = Overwritten(k, loc[p].h)
               /\ pc' = [pc EXCEPT ![p] = "p_now"]
    /\ UNCHANGED <<buckets, arrays, clock, loc, handles, stamped, calls>>

\* Mutant of Readings: the clock may go back.
ReadingsAnyOrder(last) == 1..MaxClock

\* The readings time.Now().UnixNano() can give after the reading `last`:
\* positive, and never below an earlier reading.
Readings(last) == last..MaxClock

\* `time.Now().UnixNano()`, the right-hand side of the timestamp assignment:
\* the reading is a local of the call until it is stored.
PutNow(p) ==
    /\ At(p, "p_now")
    /\ \E now \in Readings(clock) :
         /\ clock' = now
         /\ loc' = [loc EXCEPT ![p].now = now]
    /\ pc' = [pc EXCEPT ![p] = "p_stamp"]
    /\ UNCHANGED <<buckets, arrays, cells, handles, lastPut, stamped, calls>>

\* `p.buckets[id].timestamp = ...`: the reading is stored in the cell.
PutStamp(p) ==
    /\ At(p, "p_stamp")
    /\ LET k == Resolve(loc[p].h.id)
       IN IF k = 0
          THEN Crash(p) /\ UNCHANGED <<cells, loc, stamped>>
          ELSE /\ cells' = [cells EXCEPT ![k].timestamp = loc[p].now]
               /\ stamped' = stamped \cup {k}
               /\ loc' = [loc EXCEPT ![p].now = 0]
               /\ pc' = [pc EXCEPT ![p] = "p_return"]
    /\ UNCHANGED <<buckets, arrays, clock, handles, lastPut, calls>>

\* `return p.buckets[id].timestamp`: the result is read back from the cell.
PutReturn(p) ==
    /\ At(p, "p_return")
    /\ LET k == Resolve(loc[p].h.id)
       IN IF k = 0
          THEN Crash(p) /\ UNCHANGED loc
          ELSE /\ loc' = [loc EXCEPT ![p].rts = cells[k].timestamp]
               /\ pc' = [pc EXCEPT ![p] = "p_unlock"]
    /\ UNCHANGED <<buckets, arrays, cells, clock, handles, lastPut, stamped, calls>>

\* What lastPut says once a put through handle h has returned (v, t).
Recorded(h, v, t) ==
    IF h.name \in Names
    THEN [lastPut EXCEPT ![h.name] = [v |-> v, t |-> t, valid |-> TRUE]]
    ELSE lastPut

\* The deferred Unlock runs and put returns; Unlock of a guard no writer
\* holds is a fatal error.
PutUnlock(p) ==
    /\ At(p, "p_unlock")
    /\ LET k == loc[p].ul
       IN IF ~cells[k].writer
          THEN Crash(p) /\ UNCHANGED <<cells, loc, lastPut>>
          ELSE /\ cells' = [cells EXCEPT ![k].writer = FALSE]
               /\ lastPut' = Recorded(loc[p].h, loc[p].val, loc[p].rts)
               /\ pc' = [pc EXCEPT ![p] = "returned"]
               /\ UNCHANGED loc
    /\ UNCHANGED <<buckets, arrays, clock, handles, stamped, calls>>

\* The caller has the results of its call and goes on.
Returned(p) ==
    /\ At(p, "returned")
    /\ loc' = [loc EXCEPT ![p] = Idle0]
    /\ pc' = [pc EXCEPT ![p] = "idle"]
    /\ UNCHANGED <<buckets, arrays, cells, clock, handles, lastPut, stamped, calls>>

(***************************************************************************)
(* Specifications                                                          *)
(***************************************************************************)

\* The handles a caller can use: those Bucket returned, and raw ids.
Usable == handles \cup RawHandles

\* The steps of a call that has started.
Step(p) ==
    \/ BucketIter(p)
    \/ BucketAppendLoad(p)
    \/ BucketAppendWrite(p)
    \/ BucketStore(p)
    \/ BucketLen(p)
    \/ GetReject(p)
    \/ GetRLock(p)
    \/ GetDefer(p)
    \/ GetValue(p)
    \/ GetTimestamp(p)
    \/ GetFresh(p)
    \/ GetRUnlock(p)
    \/ PutReject(p)
    \/ PutLock(p)
    \/ PutDefer(p)
    \/ PutValue(p)
    \/ PutNow(p)
    \/ PutStamp(p)
    \/ PutReturn(p)
    \/ PutUnlock(p)
    \/ Returned(p)

\* Any goroutine may start any call at any time.
Next ==
    \E p \in Procs :
        \/ \E n \in Names : BucketRange(p, n)
        \/ \E h \in Usable, c \in Cmp : GetCheck(p, h, c)
        \/ \E h \in Usable, v \in Values : PutCheck(p, h, v)
        \/ Step(p)

Spec == Init /\ [][Next]_vars

\* The goroutines inside a Bucket call.
InBucket == {q \in Procs : pc[q] \in {"b_iter", "b_write", "b_store", "b_len"}}

\* Every goroutine but p is in no call.
Alone(p) == \A q \in Procs \ {p} : pc[q] \in {"idle", "returned"}

\* The callers keep Bucket calls apart from every other call (a Bucket call
\* starts when no call is in progress, and nothing starts during it); get and
\* put calls run concurrently.
NextSerial ==
    \E p \in Procs :
        \/ \E n \in Names : Alone(p) /\ BucketRange(p, n)
        \/ \E h \in Usable, c \in Cmp : InBucket = {} /\ GetCheck(p, h, c)
        \/ \E h \in Usable, v \in Values : InBucket = {} /\ PutCheck(p, h, v)
        \/ Step(p)

SpecSerial == Init /\ [][NextSerial]_vars

(***************************************************************************)
(* Properties                                                              *)
(***************************************************************************)

\* The names of the cells at the pool's positions, in order.
PoolNames == [i \in 1..buckets.len |-> cells[Pool[i]].name]

\* The names Bucket has been called with so far, returned or not.
BucketNames == {h.name : h \in handles} \cup {loc[q].h.name : q \in InBucket}

\* C1: when every Bucket call so far, concurrent or not, asked for one and
\* the same new name and all of them have returned, the pool holds exactly
\* one cell and every caller got the same identifier.
C1_OneCellForOneName ==
    \A n \in Names :
        (BucketNames = {n} /\ InBucket = {})
            => (buckets.len = 1 /\ \A h1, h2 \in handles : h1.id = h2.id)

\* C2: the names of the cells in the pool are pairwise distinct.
C2_NamesUnique ==
    \A i, j \in 1..buckets.len : i # j => PoolNames[i] # PoolNames[j]

\* C3: handles returned for two distinct names carry different identifiers.
C3_DistinctNamesDistinctIds ==
    \A h1, h2 \in handles : h1.name # h2.name => h1.id # h2.id

\* C4: no step lowers the cell count, and every position of the pool keeps
\* its cell, and the cell its name.
C4_AppendOnly ==
    [][/\ buckets'.len >= buckets.len
       /\ \A i \in 1..buckets.len :
            /\ i <= buckets'.len
            /\ Pool'[i] = Pool[i]
            /\ cells'[Pool[i]].name = cells[Pool[i]].name]_vars

\* Goroutine p is inside a Bucket call for a name an earlier call returned a
\* handle for.
SecondLookup(p) ==
    /\ p \in InBucket
    /\ \E h \in handles : h.name = loc[p].h.name

ReadsLastPut(p, n) ==
    /\ At(p, "g_runlock")
    /\ loc[p].h.name = n
    /\ lastPut[n].valid

C8_WitnessStale ==
    \E p \in Procs, n \in Names :
        /\ ReadsLastPut(p, n)
        /\ lastPut[n].v = "x"
        /\ loc[p].c = lastPut[n].t + 1
        /\ ~loc[p].rfresh

GetRejected(p) == pc[p] = "returned" /\ loc[p].op = "get" /\ loc[p].lk = 0

\* C11: a get whose identifier is negative or not below the cell count at its
\* range check goes to `return nil, timestamp, false`: its two steps leave
\* the slice, the arrays, every cell (guards included) and the clock as they
\* were, and it returns no value, the caller's compare timestamp and false.
C11_GetOutOfRange ==
    [][\A p \in Procs :
         /\ (/\ pc[p] = "idle"
             /\ loc'[p].op = "get"
             /\ (loc'[p].h.id < 0 \/ loc'[p].h.id >= buckets.len))
                => /\ pc'[p] = "g_reject"
                   /\ UNCHANGED <<buckets, arrays, cells, clock>>
         /\ (pc[p] = "g_reject" /\ pc'[p] # "g_reject")
                => /\ GetRejected(p)'
                   /\ loc'[p].rv = Nil
                   /\ loc'[p].rts = loc[p].c
                   /\ ~loc'[p].rfresh
                   /\ UNCHANGED <<buckets, arrays, cells, clock>>]_vars

\* C11 witness: beside a written cell, one get with a negative id and one
\* with an id past the end have both returned the compare timestamp given.
C11_Witness ==
    \E p, q \in Procs :
        /\ GetRejected(p) /\ loc[p].h.id < 0 /\ loc[p].c = MaxClock
        /\ GetRejected(q) /\ loc[q].h.id >= buckets.len /\ loc[q].c = 1
        /\ loc[p].rts = MaxClock /\ loc[q].rts = 1
        /\ \E k \in stamped : cells[k].value = "x"

\* Goroutine p has the result of a put that its range check turned away.
PutRejected(p) == pc[p] = "returned" /\ loc[p].op = "put" /\ loc[p].lk = 0

\* C12: a put whose identifier is negative or not below the cell count at its
\* range check goes to `return 0`: its two steps allocate no cell, leave the
\* slice, the arrays and every cell as they were, and it returns 0.
C12_PutOutOfRange ==
    [][\A p \in Procs :
         /\ (/\ pc[p] = "idle"
             /\ loc'[p].op = "put"
             /\ (loc'[p].h.id < 0 \/ loc'[p].h.id >= buckets.len))
                => /\ pc'[p] = "p_reject"
                   /\ UNCHANGED <<buckets, arrays, cells>>
         /\ (pc[p] = "p_reject" /\ pc'[p] # "p_reject")
                => /\ PutRejected(p)'
                   /\ loc'[p].rts = 0
                   /\ Len(cells') = Len(cells)
                   /\ UNCHANGED <<buckets, arrays, cells>>]_vars

\* C12 witness: beside a written cell, a put of "x" with a negative id and
\* one with an id past the end have both returned 0.
C12_Witness ==
    \E p, q \in Procs :
        /\ PutRejected(p) /\ loc[p].h.id < 0 /\ loc[p].val = "x"
        /\ PutRejected(q) /\ loc[q].h.id >= buckets.len /\ loc[q].val = "x"
        /\ loc[p].rts = 0 /\ loc[q].rts = 0
        /\ \E k \in stamped : cells[k].value = Nil /\ cells[k].timestamp > 0

\* The pair the last put that completed on cell k wrote, (nil, 0) when no
\* put has stamped the cell.
Settled(k, value, timestamp) ==
    IF k \in stamped
    THEN /\ lastPut[cells[k].name].valid
         /\ value = lastPut[cells[k].name].v
         /\ timestamp = lastPut[cells[k].name].t
         /\ timestamp > 0
    ELSE value = Nil /\ timestamp = 0

\* C13: whenever no put holds a cell's guard, the cell holds the value and
\* the timestamp of one and the same completed put (the pair that put
\* returned with), or (nil, 0) before the first; and the pair a get is about
\* to return is such a pair, whatever puts run beside it.
C13_PutsAtomic ==
    /\ \A k \in 1..Len(cells) :
         ~cells[k].writer => Settled(k, cells[k].value, cells[k].timestamp)
    /\ \A p \in Procs :
         pc[p] = "g_runlock" => Settled(loc[p].lk, loc[p].rv, loc[p].rts)

\* Goroutine p is at a store of put (the value store or the timestamp store).
AtPutStore(p) == pc[p] \in {"p_value", "p_stamp"}

\* C14: a cell's value and timestamp are changed only by the put that holds
\* the cell's exclusive guard, so that when a put releases the guard - being
\* then the last that acquired it - the cell holds the value it was given and
\* the timestamp it returns; and the timestamp a get is about to return is
\* the one in the cell it locked.
C14_LastWriteWins ==
    [][/\ \A k \in 1..Len(cells) :
            (\/ cells'[k].value # cells[k].value
             \/ cells'[k].timestamp # cells[k].timestamp)
                => \E p \in Procs :
                     AtPutStore(p) /\ pc'[p] # pc[p] /\ loc[p].lk = k
       /\ \A p \in Procs :
            (pc[p] = "p_unlock" /\ pc'[p] = "returned")
                => /\ cells'[loc[p].lk].value = loc[p].val
                   /\ cells'[loc[p].lk].timestamp = loc'[p].rts
                   /\ loc'[p].rts > 0
       /\ \A p \in Procs :
            pc'[p] = "g_runlock"
                => loc'[p].rts = cells'[loc'[p].lk].timestamp]_vars

\* Goroutine p is inside put between Lock and the deferred Unlock.
InPut(p) ==
    pc[p] \in {"p_defer", "p_value", "p_now", "p_stamp", "p_return", "p_unlock"}

\* Goroutine p is inside get between RLock and the deferred RUnlock.
InGet(p) == pc[p] \in {"g_defer", "g_value", "g_timestamp", "g_fresh", "g_runlock"}

\* The goroutines that hold the guard of cell k.
Holders(k) == {p \in Procs : (InPut(p) \/ InGet(p)) /\ loc[p].lk = k}

\* C15: while a put holds a cell's guard, the guard is write-locked and no
\* other put and no get holds it; while a get holds it, the guard has its
\* reader and no writer; and (while the program runs) a get or put about to
\* lock a cell that nobody holds goes ahead, whatever is in progress on other
\* cells.
C15_PerCellExclusion ==
    /\ \A p \in Procs :
         InPut(p) => /\ cells[loc[p].lk].writer
                     /\ cells[loc[p].lk].readers = 0
                     /\ Holders(loc[p].lk) = {p}
    /\ \A p \in Procs :
         InGet(p) => /\ ~cells[loc[p].lk].writer
                     /\ cells[loc[p].lk].readers = Cardinality(Holders(loc[p].lk))
    /\ \A p \in Procs :
         LET k == Resolve(loc[p].h.id)
         IN (Running /\ k # 0 /\ Holders(k) = {})
               => /\ pc[p] = "p_lock" => ENABLED PutLock(p)
                  /\ pc[p] = "g_rlock" => ENABLED GetRLock(p)

\* The cell whose guard goroutine p, inside get or put, is going to release:
\* the receiver of its defer statement once that has been evaluated.
WillRelease(p) ==
    IF pc[p] \in {"g_defer", "p_defer"} THEN Resolve(loc[p].h.id) ELSE loc[p].ul

\* C16, as far as a finite run can refute it: no call has ended in a panic
\* or a fatal error instead of returning, every guard that is locked is going
\* to be released by a call in progress (no lock is left held), and while a
\* call is in progress some goroutine can take a step (no deadlock).
C16_NoCallStuck ==
    /\ Running
    /\ \A k \in 1..Len(cells) :
         (cells[k].writer \/ cells[k].readers > 0)
            => \E p \in Procs : (InPut(p) \/ InGet(p)) /\ WillRelease(p) = k
    /\ (\E p \in Procs : pc[p] # "idle") => ENABLED Next

\* C17: every handle Bucket has returned has an identifier within the pool's
\* range, and the cell at that position has the handle's name - when the
\* handle is returned and in every later state.
C17_HandleAddressesItsName ==
    \A h \in handles :
        /\ h.id \in 0..(buckets.len - 1)
        /\ cells[Pool[h.id + 1]].name = h.name

\* Goroutine p, past the lock of get or put, is about to evaluate
\* p.buckets[id] once more.
AboutToIndex(p) ==
    pc[p] \in {"g_defer", "g_value", "g_timestamp", "g_fresh",
               "p_defer", "p_value", "p_stamp", "p_return"}

\* C18: a get or put that has passed its range check finds its identifier in
\* range when it locks, every later p.buckets[id] of the call is the cell it
\* locked, and the guard its deferred unlock releases is the one it locked.
C18_OneCellPerCall ==
    \A p \in Procs :
        /\ pc[p] \in {"g_rlock", "p_lock"} => Resolve(loc[p].h.id) # 0
        /\ AboutToIndex(p) => Resolve(loc[p].h.id) = loc[p].lk
        /\ pc[p] \in {"g_runlock", "p_unlock"} => loc[p].ul = loc[p].lk

\* C19: given a clock whose readings never go back, no step of any goroutine
\* lowers the timestamp stored in a cell.
C19_TimestampNeverDecreases ==
    [][\A k \in 1..Len(cells) : cells'[k].timestamp >= cells[k].timestamp]_vars

\* The pool as its callers see it: name, value and timestamp of the cell at
\* each position.
View ==
    [i \in 1..buckets.len |->
        [name |-> cells[Pool[i]].name,
         value |-> cells[Pool[i]].value,
         timestamp |-> cells[Pool[i]].timestamp]]

\* The step is one of goroutine p, inside a call of operation op or starting one.
StepOf(p, op) ==
    /\ pc'[p] # pc[p] \/ loc'[p] # loc[p]
    /\ IF pc[p] = "idle" THEN loc'[p].op = op ELSE loc[p].op = op

\* C20: a step of a put on identifier i leaves the cell count, every name and
\* the value and timestamp of every position but i as they were; a step of a
\* get leaves all of them as they were; a step of a Bucket call leaves the
\* value and timestamp at every existing position as they were.
C20_Frame ==
    [][\A p \in Procs :
         /\ StepOf(p, "put")
               => /\ Len(View') = Len(View)
                  /\ \A i \in 1..Len(View) :
                       /\ View'[i].name = View[i].name
                       /\ i # loc'[p].h.id + 1 => View'[i] = View[i]
         /\ StepOf(p, "get") => View' = View
         /\ StepOf(p, "Bucket")
               => \A i \in 1..Len(View) :
                    /\ i <= Len(View')
                    /\ View'[i].value = View[i].value
                    /\ View'[i].timestamp = View[i].timestamp]_vars

====
